---- MODULE Spec2Model ----
(***************************************************************************)
(* A model of unit-parser: arithmetic over physically-dimensioned numbers  *)
(* (src/src/main.rs) and the nom parser/evaluator that reads them from     *)
(* text (src/src/parser.rs).                                               *)
(*                                                                         *)
(* The program is a composition of pure functions.  Each function is an    *)
(* operator computed as the code computes it; each specification draws the *)
(* inputs of one group of functions from bounded sets in its initial       *)
(* predicate and has one action per operation applied to them.             *)
(*                                                                         *)
(* Text is a sequence of one-character strings.  An f64 magnitude is an    *)
(* exact rational [n, d] in lowest terms; d = 0 stands for the non-finite  *)
(* values (n = 1: inf, n = -1: -inf, n = 0: NaN).  Rounding and the sign   *)
(* of zero are not represented.  isize exponents stay far from 2^63.       *)
(***************************************************************************)
EXTENDS Integers, Sequences, FiniteSets, TLC

VARIABLES
    pc,       \* which operation has been applied to the inputs
    lhs,      \* ConcreteNumber: left operand of an arithmetic operator
    rhs,      \* ConcreteNumber: right operand of an arithmetic operator
    tree,     \* Expr: the expression tree handed to Expr::evaluate
    input,    \* the text handed to a parser
    input2,   \* a second text, evaluated beside input
    pq,       \* PhysicalQuantity: the vector handed to Display
    parsed,   \* IResult of a parser on input
    result,   \* Result<ConcreteNumber, CustomError> of an evaluation
    result2,  \* the Result of evaluating input2
    printed,  \* the text a Display implementation wrote
    builder_a,    \* PhysicalQuantityBuilder: left operand of * and /
    builder_b,    \* PhysicalQuantityBuilder: right operand of * and /
    builder_out   \* PhysicalQuantityBuilder: the product, then the quotient

vars ==
    <<pc, lhs, rhs, tree, input, input2, pq, parsed, result, result2, printed,
      builder_a, builder_b, builder_out>>

\* ------------------------------------------------------------------ bounds

\* Largest magnitude drawn for an operand of the arithmetic operators.
MaxMag == 2

\* Most nodes of an expression tree handed to Expr::evaluate.
MaxNodes == 7

\* Largest absolute exponent written after '^' in a unit token.
MaxExp == 3

\* Largest absolute exponent of the vectors drawn for Display.
MaxDim == 1

\* Most tokens of a free-form input text.
MaxTokens == 5

\* Most unit tokens of a compound unit.
MaxUnits == 3

\* Most operands of a chain of binary operators handed to expr.
MaxChain == 4

\* Most pieces (numbers, symbols, operators, parentheses) of a text into
\* which whitespace is inserted.
MaxPieces == 4

\* ------------------------------------------------------------- f64 values

Abs(x) == IF x < 0 THEN -x ELSE x

Sign(x) == IF x < 0 THEN -1 ELSE IF x > 0 THEN 1 ELSE 0

RECURSIVE Gcd(_, _)
Gcd(a, b) == IF b = 0 THEN a ELSE Gcd(b, a % b)

\* The f64 nearest n/d, within the rationals this model represents.
F64(n, d) ==
    IF d = 0 THEN [n |-> Sign(n), d |-> 0]
    ELSE IF n = 0 THEN [n |-> 0, d |-> 1]
    ELSE LET g == Gcd(Abs(n), Abs(d))
         IN  [n |-> (Sign(d) * n) \div g, d |-> Abs(d) \div g]

F64_add(x, y) ==
    IF x.d = 0 /\ y.d = 0
    THEN (IF x.n = y.n THEN x ELSE F64(0, 0))
    ELSE F64(x.n * y.d + y.n * x.d, x.d * y.d)

F64_neg(x) == [n |-> -x.n, d |-> x.d]

F64_sub(x, y) == F64_add(x, F64_neg(y))

F64_mul(x, y) == F64(x.n * y.n, x.d * y.d)

F64_div(x, y) ==
    LET s == IF y.n < 0 THEN -1 ELSE 1
    IN  F64(s * x.n * y.d, s * x.d * y.n)

\* ------------------------------------------------------- PhysicalQuantity

Fields ==
    {"time", "length", "mass", "current", "temperature",
     "amount_of_substance", "luminous_intensity"}

PhysicalQuantity_new(t, l, m, c, k, a, li) ==
    [time |-> t, length |-> l, mass |-> m, current |-> c, temperature |-> k,
     amount_of_substance |-> a, luminous_intensity |-> li]

PhysicalQuantity_mul(self, other) ==
    PhysicalQuantity_new(
        self.time + other.time,
        self.length + other.length,
        self.mass + other.mass,
        self.current + other.current,
        self.temperature + other.temperature,
        self.amount_of_substance + other.amount_of_substance,
        self.luminous_intensity + other.luminous_intensity)

\* The slip of PhysicalQuantityBuilder's Div, made in PhysicalQuantity's.
PhysicalQuantity_div_adding(self, other) ==
    PhysicalQuantity_new(
        self.time + other.time,
        self.length + other.length,
        self.mass + other.mass,
        self.current + other.current,
        self.temperature + other.temperature,
        self.amount_of_substance + other.amount_of_substance,
        self.luminous_intensity + other.luminous_intensity)

PhysicalQuantity_div(self, other) ==
    PhysicalQuantity_new(
        self.time - other.time,
        self.length - other.length,
        self.mass - other.mass,
        self.current - other.current,
        self.temperature - other.temperature,
        self.amount_of_substance - other.amount_of_substance,
        self.luminous_intensity - other.luminous_intensity)

\* --------------------------------------------------- PhysicalQuantityBuilder

PhysicalQuantityBuilder_new == PhysicalQuantity_new(0, 0, 0, 0, 0, 0, 0)

b_time(b, v) == [b EXCEPT !.time = v]

b_length(b, v) == [b EXCEPT !.length = v]

b_mass(b, v) == [b EXCEPT !.mass = v]

b_current(b, v) == [b EXCEPT !.current = v]

b_temperature(b, v) == [b EXCEPT !.temperature = v]

b_amount_of_substance(b, v) == [b EXCEPT !.amount_of_substance = v]

b_luminous_intensity(b, v) == [b EXCEPT !.luminous_intensity = v]

b_build(b) ==
    PhysicalQuantity_new(b.time, b.length, b.mass, b.current, b.temperature,
                         b.amount_of_substance, b.luminous_intensity)

PhysicalQuantityBuilder_mul(self, rhs_) ==
    b_luminous_intensity(
        b_amount_of_substance(
            b_temperature(
                b_current(
                    b_mass(
                        b_length(
                            b_time(PhysicalQuantityBuilder_new,
                                   self.time + rhs_.time),
                            self.length + rhs_.length),
                        self.mass + rhs_.mass),
                    self.current + rhs_.current),
                self.temperature + rhs_.temperature),
            self.amount_of_substance + rhs_.amount_of_substance),
        self.luminous_intensity + rhs_.luminous_intensity)

PhysicalQuantityBuilder_div(self, rhs_) ==
    b_luminous_intensity(
        b_amount_of_substance(
            b_temperature(
                b_current(
                    b_mass(
                        b_length(
                            b_time(PhysicalQuantityBuilder_new,
                                   self.time + rhs_.time),
                            self.length + rhs_.length),
                        self.mass + rhs_.mass),
                    self.current + rhs_.current),
                self.temperature + rhs_.temperature),
            self.amount_of_substance + rhs_.amount_of_substance),
        self.luminous_intensity + rhs_.luminous_intensity)

\* --------------------------------------------------------- ConcreteNumber

ConcreteNumber_new(quantity, unit) ==
    [magnitude |-> quantity, physical_quantity |-> unit]

\* Result<ConcreteNumber, CustomError>
Ok(v) == [ok |-> TRUE, val |-> v]

Err(e) == [ok |-> FALSE, err |-> e]

\* CustomError::ParseError(String): which of the two messages of
\* evaluate_physical_equation it is, and the text the message cites.
ParseError(msg, cited) ==
    [ok |-> FALSE, err |-> "ParseError", msg |-> msg, cited |-> cited]

ConcreteNumber_add_unchecked(self, other) ==
    Ok(ConcreteNumber_new(F64_add(self.magnitude, other.magnitude),
                          self.physical_quantity))

ConcreteNumber_add(self, other) ==
    IF self.physical_quantity # other.physical_quantity
    THEN Err("AddingTwoDifferentUnits")
    ELSE Ok(ConcreteNumber_new(F64_add(self.magnitude, other.magnitude),
                               self.physical_quantity))

ConcreteNumber_sub(self, other) ==
    IF self.physical_quantity # other.physical_quantity
    THEN Err("SubtractingTwoDifferentUnits")
    ELSE Ok(ConcreteNumber_new(F64_sub(self.magnitude, other.magnitude),
                               self.physical_quantity))

ConcreteNumber_mul(self, other) ==
    ConcreteNumber_new(
        F64_mul(self.magnitude, other.magnitude),
        PhysicalQuantity_mul(self.physical_quantity, other.physical_quantity))

ConcreteNumber_div(self, other) ==
    ConcreteNumber_new(
        F64_div(self.magnitude, other.magnitude),
        PhysicalQuantity_div(self.physical_quantity, other.physical_quantity))

\* ------------------------------------------------------------------- text

Upper ==
    <<"A", "B", "C", "D", "E", "F", "G", "H", "I", "J", "K", "L", "M",
      "N", "O", "P", "Q", "R", "S", "T", "U", "V", "W", "X", "Y", "Z">>

Lower ==
    <<"a", "b", "c", "d", "e", "f", "g", "h", "i", "j", "k", "l", "m",
      "n", "o", "p", "q", "r", "s", "t", "u", "v", "w", "x", "y", "z">>

Digits == <<"0", "1", "2", "3", "4", "5", "6", "7", "8", "9">>

Range(s) == {s[k] : k \in 1..Len(s)}

IndexOf(s, c) == CHOOSE k \in 1..Len(s) : s[k] = c

\* The characters text is made of in this model.
Chars ==
    Range(Upper) \cup Range(Lower) \cup Range(Digits) \cup
    {" ", "\t", "(", ")", "*", "+", "-", "/", "@", "^", "Ω"}

\* A char's Unicode scalar value.
CodePoint ==
    [c \in Chars |->
        IF c \in Range(Upper) THEN 64 + IndexOf(Upper, c)
        ELSE IF c \in Range(Lower) THEN 96 + IndexOf(Lower, c)
        ELSE IF c \in Range(Digits) THEN 47 + IndexOf(Digits, c)
        ELSE CASE c = "\t" -> 9
               [] c = " " -> 32
               [] c = "(" -> 40
               [] c = ")" -> 41
               [] c = "*" -> 42
               [] c = "+" -> 43
               [] c = "-" -> 45
               [] c = "/" -> 47
               [] c = "@" -> 64
               [] c = "^" -> 94
               [] c = "Ω" -> 937]

\* `c as u8`: the low eight bits of the scalar value.
as_u8(c) == CodePoint[c] % 256

\* nom::character::is_alphabetic(u8)
is_alphabetic(b) == (b >= 65 /\ b <= 90) \/ (b >= 97 /\ b <= 122)

alphabet_char(c) == is_alphabetic(as_u8(c))

AlphaChars == {c \in Chars : alphabet_char(c)}

DigitChars == Range(Digits)

\* nom's multispace: space, tab, carriage return, line feed.
SpaceChars == {" ", "\t"}

Drop(s, n) == SubSeq(s, n + 1, Len(s))

Take(s, n) == SubSeq(s, 1, n)

\* The number of leading characters of s that are in S.
SpanLen(s, S) ==
    LET stop == {k \in 1..Len(s) : s[k] \notin S}
    IN  IF stop = {} THEN Len(s)
        ELSE (CHOOSE k \in stop : \A j \in stop : k <= j) - 1

\* IResult: Ok((rest, val)) or Err(Error { input: rest, code }).
POk(rest, val) == [ok |-> TRUE, rest |-> rest, val |-> val]

PErr(at, code) == [ok |-> FALSE, rest |-> at, code |-> code]

tag(t, i) ==
    IF Len(i) >= Len(t) /\ Take(i, Len(t)) = t
    THEN POk(Drop(i, Len(t)), t)
    ELSE PErr(i, "Tag")

char(c, i) ==
    IF i # <<>> /\ Head(i) = c THEN POk(Tail(i), c) ELSE PErr(i, "Char")

digit1(i) ==
    LET n == SpanLen(i, DigitChars)
    IN  IF n = 0 THEN PErr(i, "Digit") ELSE POk(Drop(i, n), Take(i, n))

\* multispace0 consuming nothing.
multispace0_none(i) == i

multispace0(i) == Drop(i, SpanLen(i, SpaceChars))

multispace1(i) ==
    LET n == SpanLen(i, SpaceChars)
    IN  IF n = 0 THEN PErr(i, "MultiSpace") ELSE POk(Drop(i, n), Take(i, n))

\* ws(inner) = delimited(multispace0, inner, multispace0): ws_post is applied
\* to the result of inner on multispace0(i).
ws_post(r) == IF r.ok THEN POk(multispace0(r.rest), r.val) ELSE r

RECURSIVE DigitsToNat(_)
DigitsToNat(s) ==
    IF s = <<>> THEN 0
    ELSE DigitsToNat(SubSeq(s, 1, Len(s) - 1)) * 10
         + (IndexOf(Digits, s[Len(s)]) - 1)

\* from_str_radix losing the sign.
from_str_radix_unsigned(s) ==
    IF s # <<>> /\ Head(s) = "-" THEN DigitsToNat(Tail(s)) ELSE DigitsToNat(s)

\* isize::from_str_radix(s, 10) on an optional '-' and digits.
from_str_radix(s) ==
    IF s # <<>> /\ Head(s) = "-" THEN -DigitsToNat(Tail(s)) ELSE DigitsToNat(s)

\* nom::number::complete::double on sign and digits (the model's text has no
\* fraction, exponent, "inf" or "nan" after a digit or a sign).
double(i) ==
    LET signed == i # <<>> /\ Head(i) \in {"+", "-"}
        j == IF signed THEN Tail(i) ELSE i
        d == digit1(j)
    IN  IF ~d.ok THEN PErr(i, "Float")
        ELSE POk(d.rest,
                 F64(IF signed /\ Head(i) = "-" THEN -DigitsToNat(d.val)
                     ELSE DigitsToNat(d.val), 1))

\* ------------------------------------------------------------ unit tokens

word(i) ==
    LET n == SpanLen(i, AlphaChars)
    IN  IF n = 0 THEN PErr(i, "TakeWhile1") ELSE POk(Drop(i, n), Take(i, n))

parse_isize(i) ==
    LET neg == tag(<<"-">>, i)
        j == IF neg.ok THEN neg.rest ELSE i
        d == digit1(j)
    IN  IF ~d.ok THEN d
        ELSE POk(d.rest, from_str_radix(Take(i, Len(i) - Len(d.rest))))

dimensionless == <<"d", "i", "m", "e", "n", "s", "i", "o", "n", "l", "e", "s", "s">>

unit_as_tuple(i) ==
    LET with_exp(w, e) ==
            IF e.ok THEN POk(e.rest, <<w.val, e.val>>)
            ELSE POk(w.rest, <<w.val, 1>>)
        with_caret(w, c) ==
            IF c.ok THEN with_exp(w, parse_isize(c.rest))
            ELSE POk(w.rest, <<w.val, 1>>)
        with_word(w) ==
            IF w.ok THEN with_caret(w, char("^", w.rest))
            ELSE POk(i, <<dimensionless, 1>>)
    IN  with_word(word(i))

\* The closure of unit_as_physical_quantity: symbol and exponent to vector.
unit_match(s, i) ==
    LET b == PhysicalQuantityBuilder_new
    IN  CASE s = <<"s">> -> b_build(b_time(b, i))
          [] s = <<"m">> -> b_build(b_length(b, i))
          [] s = <<"k", "g">> -> b_build(b_mass(b, i))
          [] s = <<"A">> -> b_build(b_current(b, i))
          [] s = <<"K">> -> b_build(b_temperature(b, i))
          [] s = <<"m", "o", "l">> -> b_build(b_amount_of_substance(b, i))
          [] s = <<"c", "d">> -> b_build(b_luminous_intensity(b, i))
          [] s = <<"H", "z">> -> b_build(b_time(b, i * (-1)))
          [] s = <<"N">> ->
                b_build(b_mass(b_length(b_time(b, i * (-2)), i), i))
          [] s = <<"P", "a">> ->
                b_build(b_mass(b_length(b_time(b, i * (-2)), (-1) * i), i))
          [] s = <<"J">> ->
                b_build(b_mass(b_length(b_time(b, i * (-2)), 2 * i), i))
          [] s = <<"W">> ->
                b_build(b_mass(b_length(b_time(b, i * (-3)), 2 * i), i))
          [] s = <<"C">> -> b_build(b_current(b_time(b, i), i))
          [] s = <<"V">> ->
                b_build(b_current(
                    b_mass(b_length(b_time(b, i * (-3)), i * 2), i), i * (-1)))
          [] s = <<"W", "b">> ->
                b_build(b_current(
                    b_mass(b_length(b_time(b, i * (-2)), i * 2), i), i * (-1)))
          [] s = <<"T">> ->
                b_build(b_current(b_mass(b_time(b, i * (-2)), i), i * (-1)))
          [] s = <<"F">> ->
                b_build(b_current(
                    b_mass(b_length(b_time(b, i * 4), i * (-2)), i * (-1)), i * 2))
          [] s = <<"o", "h", "m">> \/ s = <<"Ω">> ->
                b_build(b_current(
                    b_mass(b_length(b_time(b, i * (-3)), i * 2), i), i * (-2)))
          [] s = <<"S">> ->
                b_build(b_current(
                    b_mass(b_length(b_time(b, i * 3), i * (-2)), i * (-1)), i * 2))
          [] s = <<"H">> ->
                b_build(b_current(
                    b_mass(b_length(b_time(b, i * (-2)), i * 2), i), i * (-2)))
          [] s = <<"k", "a", "t">> ->
                b_build(b_amount_of_substance(b_time(b, i * (-1)), i))
          [] s = dimensionless -> b_build(b)
          [] OTHER -> b_build(b)

unit_as_physical_quantity(i) ==
    LET closure(r) ==
            IF r.ok THEN POk(r.rest, unit_match(r.val[1], r.val[2])) ELSE r
    IN  closure(unit_as_tuple(i))

\* The loop of separated_list0(multispace1, unit_as_physical_quantity).
RECURSIVE units_loop(_, _)
units_loop(i, res) ==
    LET element(o) ==
            IF ~o.ok THEN POk(i, res)
            ELSE units_loop(o.rest, Append(res, o.val))
        separator(sep) ==
            IF ~sep.ok THEN POk(i, res)
            ELSE IF Len(sep.rest) = Len(i) THEN PErr(sep.rest, "SeparatedList")
            ELSE element(unit_as_physical_quantity(sep.rest))
    IN  separator(multispace1(i))

units(i) ==
    LET first(o) ==
            IF ~o.ok THEN POk(i, <<>>) ELSE units_loop(o.rest, <<o.val>>)
    IN  first(unit_as_physical_quantity(i))

\* The fold of combined_unit leaving out the first unit.
RECURSIVE fold_mul_skip_first(_, _)
fold_mul_skip_first(acc, pqs) ==
    IF Len(pqs) <= 1 THEN acc
    ELSE fold_mul_skip_first(PhysicalQuantity_mul(acc, pqs[2]), Tail(pqs))

\* units.1.iter().fold(init, |acc, &pq| acc * pq)
RECURSIVE fold_mul(_, _)
fold_mul(acc, pqs) ==
    IF pqs = <<>> THEN acc
    ELSE fold_mul(PhysicalQuantity_mul(acc, Head(pqs)), Tail(pqs))

combined_unit(i) ==
    LET fold(us) ==
            IF ~us.ok THEN us
            ELSE POk(us.rest,
                     fold_mul(b_build(PhysicalQuantityBuilder_new), us.val))
    IN  fold(units(i))

\* The pair with whitespace required between the magnitude and the unit.
get_concrete_number_as_tuple_ws1(i) ==
    LET second(m, u) ==
            IF ~u.ok THEN u ELSE POk(u.rest, <<m.val, u.val>>)
        separator(m, sep) ==
            IF ~sep.ok THEN sep
            ELSE second(m, ws_post(combined_unit(sep.rest)))
        first(m) ==
            IF ~m.ok THEN m ELSE separator(m, multispace1(m.rest))
    IN  first(double(multispace0(i)))

\* pair(ws(double), ws(combined_unit))
get_concrete_number_as_tuple(i) ==
    LET second(m, u) ==
            IF ~u.ok THEN u ELSE POk(u.rest, <<m.val, u.val>>)
        first(m) ==
            IF ~m.ok THEN m
            ELSE second(m, ws_post(combined_unit(multispace0(m.rest))))
    IN  first(ws_post(double(multispace0(i))))

concrete_number(i) ==
    LET build(r) ==
            IF ~r.ok THEN r
            ELSE POk(r.rest, ConcreteNumber_new(r.val[1], r.val[2]))
    IN  build(get_concrete_number_as_tuple(i))

\* ------------------------------------------------------------------- Expr

Value(cn) == [tag |-> "Value", val |-> cn]

Binary(oper, a, b) == [tag |-> oper, a |-> a, b |-> b]

Paren(e) == [tag |-> "Paren", e |-> e]

Oper == {"Add", "Sub", "Mul", "Div"}

\* A binary arm of Expr::evaluate with both children surfaced as they are.
evaluate_node_surfacing(oper, expr_a, expr_b) ==
    IF ~expr_a.ok THEN expr_a
    ELSE IF ~expr_b.ok THEN expr_b
    ELSE CASE oper = "Add" -> ConcreteNumber_add(expr_a.val, expr_b.val)
           [] oper = "Sub" -> ConcreteNumber_sub(expr_a.val, expr_b.val)
           [] oper = "Mul" -> Ok(ConcreteNumber_mul(expr_a.val, expr_b.val))
           [] oper = "Div" -> Ok(ConcreteNumber_div(expr_a.val, expr_b.val))

\* A binary arm of Expr::evaluate, given the two evaluated children.
evaluate_node(oper, expr_a, expr_b) ==
    IF expr_a.ok /\ expr_b.ok
    THEN CASE oper = "Add" -> ConcreteNumber_add(expr_a.val, expr_b.val)
           [] oper = "Sub" -> ConcreteNumber_sub(expr_a.val, expr_b.val)
           [] oper = "Mul" -> Ok(ConcreteNumber_mul(expr_a.val, expr_b.val))
           [] oper = "Div" -> Ok(ConcreteNumber_div(expr_a.val, expr_b.val))
    ELSE Err("SubExpressionError")

RECURSIVE evaluate(_)
evaluate(e) ==
    CASE e.tag = "Value" -> Ok(e.val)
      [] e.tag \in Oper -> evaluate_node(e.tag, evaluate(e.a), evaluate(e.b))
      [] e.tag = "Paren" -> evaluate(e.e)

\* fold_exprs nesting to the right.
RECURSIVE fold_exprs_right(_, _)
fold_exprs_right(initial, remainder) ==
    IF remainder = <<>> THEN initial
    ELSE Binary(Head(remainder)[1], initial,
                fold_exprs_right(Head(remainder)[2], Tail(remainder)))

RECURSIVE fold_exprs(_, _)
fold_exprs(initial, remainder) ==
    IF remainder = <<>> THEN initial
    ELSE fold_exprs(Binary(Head(remainder)[1], initial, Head(remainder)[2]),
                    Tail(remainder))

\* ------------------------------------------------------ expression parser

RECURSIVE expr(_)
RECURSIVE term(_)
RECURSIVE factor(_)
RECURSIVE parens(_)
RECURSIVE term_many0(_, _)
RECURSIVE expr_many0(_, _)

\* parens after its expr e: tag(")"), then multispace0.
parens_close(e, close) ==
    IF ~close.ok THEN close ELSE POk(multispace0(close.rest), Paren(e.val))

\* parens after tag("("): map(expr, |e| Expr::Paren(Box::new(e))).
parens_inner(e) ==
    IF ~e.ok THEN e ELSE parens_close(e, tag(<<")">>, e.rest))

parens_open(open) ==
    IF ~open.ok THEN open ELSE parens_inner(expr(open.rest))

parens(i) == parens_open(tag(<<"(">>, multispace0(i)))

\* alt of nom::error::Error keeps the error of the last alternative; v is
\* the result of map(ws(concrete_number), Expr::Value).
factor_alt(i, v) == IF v.ok THEN POk(v.rest, Value(v.val)) ELSE parens(i)

factor(i) == factor_alt(i, ws_post(concrete_number(multispace0(i))))

\* The pair of an operator's Oper and its operand f.
oper_operand(oper, f) == IF ~f.ok THEN f ELSE POk(f.rest, <<oper, f.val>>)

\* preceded(ws(tag(sym)), ws(factor)) after the tag t.
term_operand(oper, t) ==
    IF ~t.ok THEN t
    ELSE oper_operand(oper, ws_post(factor(multispace0(t.rest))))

term_oper(sym, oper, i) ==
    term_operand(oper, ws_post(tag(<<sym>>, multispace0(i))))

term_mul(i) == term_oper("*", "Mul", i)

term_div(i) == term_oper("/", "Div", i)

\* One round of many0 in term, r the result of alt((term_mul, term_div)).
term_step(i, acc, r) ==
    IF ~r.ok THEN POk(i, acc)
    ELSE IF Len(r.rest) = Len(i) THEN PErr(i, "Many0")
    ELSE term_many0(r.rest, Append(acc, r.val))

term_alt(i, m) == IF m.ok THEN m ELSE term_div(i)

\* many0(alt((term_mul, term_div)))
term_many0(i, acc) == term_step(i, acc, term_alt(i, term_mul(i)))

\* fold_exprs on the first operand and the list many0 returned.
fold_pair(initial, remainder) ==
    IF ~remainder.ok THEN remainder
    ELSE POk(remainder.rest, fold_exprs(initial.val, remainder.val))

term_first(initial) ==
    IF ~initial.ok THEN initial
    ELSE fold_pair(initial, term_many0(initial.rest, <<>>))

term(i) == term_first(factor(i))

\* preceded(ws(tag(sym)), term) after the tag t.
expr_operand(oper, t) ==
    IF ~t.ok THEN t ELSE oper_operand(oper, term(t.rest))

expr_oper(sym, oper, i) ==
    expr_operand(oper, ws_post(tag(<<sym>>, multispace0(i))))

expr_add(i) == expr_oper("+", "Add", i)

expr_sub(i) == expr_oper("-", "Sub", i)

\* One round of many0 in expr, r the result of alt((expr_add, expr_sub)).
expr_step(i, acc, r) ==
    IF ~r.ok THEN POk(i, acc)
    ELSE IF Len(r.rest) = Len(i) THEN PErr(i, "Many0")
    ELSE expr_many0(r.rest, Append(acc, r.val))

expr_alt(i, m) == IF m.ok THEN m ELSE expr_sub(i)

\* many0(alt((expr_add, expr_sub)))
expr_many0(i, acc) == expr_step(i, acc, expr_alt(i, expr_add(i)))

expr_first(initial) ==
    IF ~initial.ok THEN initial
    ELSE fold_pair(initial, expr_many0(initial.rest, <<>>))

expr(i) == expr_first(term(i))

\* format!("({})", input)
wrapped(text) == <<"(">> \o text \o <<")">>

\* The two error returns and expr.evaluate(), r the result of expr.
evaluate_parsed(r) ==
    IF ~r.ok THEN ParseError("Could not parse input", r.rest)
    ELSE IF r.rest # <<>> THEN ParseError("Could not parse full input", r.rest)
    ELSE evaluate(r.val)

evaluate_physical_equation(text) == evaluate_parsed(expr(wrapped(text)))

\* ---------------------------------------------------------------- Display

RECURSIVE NatToChars(_)
NatToChars(n) ==
    IF n < 10 THEN <<Digits[n + 1]>>
    ELSE NatToChars(n \div 10) \o <<Digits[(n % 10) + 1]>>

\* Display for isize
isize_fmt(n) == IF n < 0 THEN <<"-">> \o NatToChars(-n) ELSE NatToChars(n)

\* Display for f64, on the integral and the non-finite values.
f64_fmt(x) ==
    CASE x.d = 1 -> isize_fmt(x.n)
      [] x.d = 0 /\ x.n = 1 -> <<"i", "n", "f">>
      [] x.d = 0 /\ x.n = -1 -> <<"-", "i", "n", "f">>
      [] x.d = 0 /\ x.n = 0 -> <<"N", "a", "N">>

\* Ord for str: lexicographic on the bytes (the symbols sorted are ASCII).
RECURSIVE str_lt(_, _)
str_lt(a, b) ==
    IF b = <<>> THEN FALSE
    ELSE IF a = <<>> THEN TRUE
    ELSE IF CodePoint[Head(a)] # CodePoint[Head(b)]
    THEN CodePoint[Head(a)] < CodePoint[Head(b)]
    ELSE str_lt(Tail(a), Tail(b))

\* units.sort_by(|a, b| a.0.cmp(b.0)): a stable sort by symbol.
RECURSIVE sort_by_symbol(_)
sort_by_symbol(units_) ==
    IF units_ = <<>> THEN <<>>
    ELSE LET x == Head(units_)
             rest == sort_by_symbol(Tail(units_))
             before == SelectSeq(rest, LAMBDA y : str_lt(y[1], x[1]))
             after == SelectSeq(rest, LAMBDA y : ~str_lt(y[1], x[1]))
         IN  before \o <<x>> \o after

fmt_unit(u) == IF u[2] = 1 THEN u[1] ELSE u[1] \o <<"^">> \o isize_fmt(u[2])

RECURSIVE join(_, _)
join(strs, sep) ==
    IF strs = <<>> THEN <<>>
    ELSE IF Len(strs) = 1 THEN strs[1]
    ELSE strs[1] \o sep \o join(Tail(strs), sep)

\* The fall-through arm of Display for PhysicalQuantity.
compound_unit(self) ==
    LET pushed ==
            (IF self.time # 0 THEN <<<< <<"s">>, self.time >>>> ELSE <<>>)
            \o (IF self.length # 0 THEN <<<< <<"m">>, self.length >>>> ELSE <<>>)
            \o (IF self.mass # 0 THEN <<<< <<"k", "g">>, self.mass >>>> ELSE <<>>)
            \o (IF self.current # 0 THEN <<<< <<"A">>, self.current >>>> ELSE <<>>)
            \o (IF self.temperature # 0
                THEN <<<< <<"K">>, self.temperature >>>> ELSE <<>>)
            \o (IF self.amount_of_substance # 0
                THEN <<<< <<"m", "o", "l">>, self.amount_of_substance >>>>
                ELSE <<>>)
            \o (IF self.luminous_intensity # 0
                THEN <<<< <<"c", "d">>, self.luminous_intensity >>>> ELSE <<>>)
        sorted == sort_by_symbol(pushed)
    IN  join([k \in 1..Len(sorted) |-> fmt_unit(sorted[k])], <<" ">>)

\* Display for PhysicalQuantity
PhysicalQuantity_fmt(self) ==
    LET t == <<self.time, self.length, self.mass, self.current,
               self.temperature, self.amount_of_substance,
               self.luminous_intensity>>
    IN  CASE t = <<1, 0, 0, 0, 0, 0, 0>> -> <<"s">>
          [] t = <<0, 1, 0, 0, 0, 0, 0>> -> <<"m">>
          [] t = <<0, 0, 1, 0, 0, 0, 0>> -> <<"k", "g">>
          [] t = <<0, 0, 0, 1, 0, 0, 0>> -> <<"A">>
          [] t = <<0, 0, 0, 0, 1, 0, 0>> -> <<"K">>
          [] t = <<0, 0, 0, 0, 0, 1, 0>> -> <<"m", "o", "l">>
          [] t = <<0, 0, 0, 0, 0, 0, 1>> -> <<"c", "d">>
          [] t = <<-1, 0, 0, 0, 0, 0, 0>> -> <<"H", "z">>
          [] t = <<-2, 1, 1, 0, 0, 0, 0>> -> <<"N">>
          [] t = <<-2, -1, 1, 0, 0, 0, 0>> -> <<"P", "a">>
          [] t = <<-2, 2, 1, 0, 0, 0, 0>> -> <<"J">>
          [] t = <<-3, 2, 1, 0, 0, 0, 0>> -> <<"W">>
          [] t = <<1, 0, 0, 1, 0, 0, 0>> -> <<"C">>
          [] t = <<-3, 2, 1, -1, 0, 0, 0>> -> <<"V">>
          [] t = <<-2, 2, 1, -1, 0, 0, 0>> -> <<"W", "b">>
          [] t = <<-2, 0, 1, -1, 0, 0, 0>> -> <<"T">>
          [] t = <<4, -2, -1, 2, 0, 0, 0>> -> <<"F">>
          [] t = <<-3, 2, 1, -2, 0, 0, 0>> -> <<"Ω">>
          [] t = <<3, -2, -1, 2, 0, 0, 0>> -> <<"S">>
          [] t = <<-2, 2, 1, -2, 0, 0, 0>> -> <<"H">>
          [] t = <<1, 0, 0, 0, 0, 1, 0>> -> <<"k", "a", "t">>
          [] t = <<0, 0, 0, 0, 0, 0, 0>> -> dimensionless
          [] OTHER -> compound_unit(self)

\* Display for ConcreteNumber
ConcreteNumber_fmt(self) ==
    f64_fmt(self.magnitude) \o <<" ">> \o PhysicalQuantity_fmt(self.physical_quantity)

\* main: what println! writes for the Result of the evaluation.
main_print(r) ==
    IF r.ok THEN [line |-> "result", text |-> ConcreteNumber_fmt(r.val)]
    ELSE [line |-> "ERROR", text |-> <<>>]

\* ----------------------------------------------------------------- inputs

\* The symbols matched by unit_as_physical_quantity, "Ω" aside.
Symbols ==
    {<<"s">>, <<"m">>, <<"k", "g">>, <<"A">>, <<"K">>, <<"m", "o", "l">>,
     <<"c", "d">>, <<"H", "z">>, <<"N">>, <<"P", "a">>, <<"J">>, <<"W">>,
     <<"C">>, <<"V">>, <<"W", "b">>, <<"T">>, <<"F">>, <<"o", "h", "m">>,
     <<"S">>, <<"H">>, <<"k", "a", "t">>}

Omega == <<"Ω">>

\* A word that no arm of unit_as_physical_quantity names.
Foo == <<"f", "o", "o">>

Dimensionless == b_build(PhysicalQuantityBuilder_new)

UnitVectors == {unit_match(s, 1) : s \in Symbols} \cup {Dimensionless}

Operands ==
    {ConcreteNumber_new(F64(m, 1), v) : m \in 0..MaxMag, v \in UnitVectors}

Leaves ==
    {ConcreteNumber_new(F64(1, 1), unit_match(<<"m">>, 1)),
     ConcreteNumber_new(F64(2, 1), unit_match(<<"s">>, 1))}

RECURSIVE ExprsOfSize(_)
ExprsOfSize(n) ==
    IF n = 1 THEN {Value(c) : c \in Leaves}
    ELSE {Paren(e) : e \in ExprsOfSize(n - 1)}
         \cup UNION {{Binary(o, a, b) :
                        o \in Oper, a \in ExprsOfSize(k),
                        b \in ExprsOfSize(n - 1 - k)} : k \in 1..(n - 2)}

Exprs == UNION {ExprsOfSize(n) : n \in 1..MaxNodes}

ExponentSuffixes ==
    {<<>>, <<"^">>, <<"^", "-">>}
    \cup {<<"^">> \o isize_fmt(n) : n \in (-MaxExp)..MaxExp}

UnitTokens ==
    {s \o x : s \in Symbols \cup {Omega, Foo}, x \in ExponentSuffixes}

Cube ==
    {PhysicalQuantity_new(t, l, m, c, k, a, li) :
        t \in (-MaxDim)..MaxDim, l \in (-MaxDim)..MaxDim,
        m \in (-MaxDim)..MaxDim, c \in (-MaxDim)..MaxDim,
        k \in (-MaxDim)..MaxDim, a \in (-MaxDim)..MaxDim,
        li \in (-MaxDim)..MaxDim}

FormatVectors ==
    Cube
    \cup {unit_match(s, n) : s \in Symbols, n \in (-MaxExp)..MaxExp}
    \cup {PhysicalQuantity_mul(u, v) : u \in UnitVectors, v \in UnitVectors}
    \cup {PhysicalQuantity_div(u, v) : u \in UnitVectors, v \in UnitVectors}

NumTexts == {<<"3">>, <<"5">>}

Literals ==
    {n \o sep \o u \o tail :
        n \in NumTexts, sep \in {<<>>, <<" ">>},
        u \in Symbols \cup {Omega, Foo, <<>>},
        tail \in {<<>>, <<" ">>, <<" ", "@">>}}

Tokens == {<<"1">>, <<" ">>, <<"m">>, <<"@">>, <<"(">>, <<")">>, <<"+">>}

RECURSIVE TokenTexts(_)
TokenTexts(n) ==
    IF n = 0 THEN {<<>>}
    ELSE LET shorter == TokenTexts(n - 1)
         IN  shorter \cup {t \o k : t \in shorter, k \in Tokens}

TextInputs == Literals \cup TokenTexts(MaxTokens)

\* Unit tokens as <<symbol, exponent>>; the exponent 1 is not written.
ImplicitUnitTokens ==
    {<< <<"m">>, 1 >>, << <<"s">>, -2 >>, << <<"W">>, 1 >>, << <<"m">>, 3 >>,
     << <<"k", "g">>, 1 >>, << <<"H", "z">>, 2 >>}

TokenSeqs ==
    UNION {[1..n -> ImplicitUnitTokens] : n \in 0..MaxUnits}

UnitTokenText(u) ==
    IF u[2] = 1 THEN u[1] ELSE u[1] \o <<"^">> \o isize_fmt(u[2])

TokenTextsOf(ts) == [k \in 1..Len(ts) |-> UnitTokenText(ts[k])]

\* "x u1 u2 ... un"
ImplicitText(x, ts) ==
    IF ts = <<>> THEN x ELSE x \o <<" ">> \o join(TokenTextsOf(ts), <<" ">>)

\* "x u1 * 1 u2 * ... * 1 un"
ExplicitText(x, ts) ==
    IF ts = <<>> THEN x
    ELSE x \o <<" ">> \o join(TokenTextsOf(ts), <<" ", "*", " ", "1", " ">>)

\* The operator characters of term_mul, term_div, expr_add and expr_sub.
OperSymbols == {"+", "-", "*", "/"}

BaseSymbols ==
    << <<"m">>, <<"s">>, <<"k", "g">>, <<"A">>, <<"K">>, <<"m", "o", "l">>,
       <<"c", "d">> >>

\* The k-th operand of a chain: the number k, bare or with a base unit.
OperandText(unit, k) ==
    IF unit THEN NatToChars(k) \o <<" ">> \o BaseSymbols[((k - 1) % 7) + 1]
    ELSE NatToChars(k)

\* "a o1 b o2 c ..." from operand k on, gap written around each operator.
RECURSIVE ChainFrom(_, _, _, _)
ChainFrom(unit, k, ops, gap) ==
    IF ops = <<>> THEN OperandText(unit, k)
    ELSE OperandText(unit, k) \o gap \o <<Head(ops)>> \o gap
         \o ChainFrom(unit, k + 1, Tail(ops), gap)

\* A chain of operands, or three operands with the left or the right pair
\* in parentheses.
ExprForms ==
    [kind : {"chain"}, unit : BOOLEAN, gap : {<<>>, <<" ">>},
     ops : UNION {[1..n -> OperSymbols] : n \in 0..(MaxChain - 1)}]
    \cup [kind : {"left", "right"}, unit : BOOLEAN, gap : {<<>>, <<" ">>},
          ops : [1..2 -> OperSymbols]]

ExprText(f) ==
    CASE f.kind = "chain" -> ChainFrom(f.unit, 1, f.ops, f.gap)
      [] f.kind = "left" ->
            <<"(">> \o ChainFrom(f.unit, 1, <<f.ops[1]>>, f.gap) \o <<")">>
            \o f.gap \o <<f.ops[2]>> \o f.gap \o OperandText(f.unit, 3)
      [] f.kind = "right" ->
            OperandText(f.unit, 1) \o f.gap \o <<f.ops[1]>> \o f.gap
            \o <<"(">> \o ChainFrom(f.unit, 2, <<f.ops[2]>>, f.gap) \o <<")">>

ExprTexts == {ExprText(f) : f \in ExprForms}

\* The pieces of a text without whitespace: a magnitude, a unit symbol, an
\* operator, the parentheses.
Pieces == {"1", "m", "+", "(", ")"}

PieceSeqs == UNION {[1..n -> Pieces] : n \in 0..MaxPieces}

Whitespaces == {<<" ">>, <<"\t", " ">>}

\* ps[k] is '+' after an operand: a binary operator, not the sign of a float.
IsBinaryOper(ps, k) ==
    /\ k \in 2..Len(ps)
    /\ ps[k] = "+"
    /\ ps[k - 1] \in {"1", "m", ")"}

IsParenthesis(ps, k) == k \in 1..Len(ps) /\ ps[k] \in {"(", ")"}

\* Gap k lies between ps[k] and ps[k + 1]; gap 0 is the start and gap
\* Len(ps) the end of the text.  Whitespace goes at the start or the end,
\* beside a binary operator, beside a parenthesis, or between a magnitude
\* and its unit.
GapAllowed(ps, k) ==
    \/ k = 0
    \/ k = Len(ps)
    \/ IsBinaryOper(ps, k) \/ IsBinaryOper(ps, k + 1)
    \/ IsParenthesis(ps, k) \/ IsParenthesis(ps, k + 1)
    \/ (ps[k] = "1" /\ ps[k + 1] = "m")

\* The pieces from piece k on, w written in every gap of the set gaps.
RECURSIVE SpacedFrom(_, _, _, _)
SpacedFrom(ps, k, gaps, w) ==
    IF k > Len(ps) THEN <<>>
    ELSE <<ps[k]>> \o (IF k \in gaps THEN w ELSE <<>>)
         \o SpacedFrom(ps, k + 1, gaps, w)

SpacedText(ps, gaps, w) ==
    (IF 0 \in gaps THEN w ELSE <<>>) \o SpacedFrom(ps, 1, gaps, w)

\* One allowed gap, or all of them.
GapChoices(ps) ==
    LET allowed == {k \in 0..Len(ps) : GapAllowed(ps, k)}
    IN  {{k} : k \in allowed} \cup {allowed}

\* Builders set to the vectors of the unit table.
Builders ==
    {b_luminous_intensity(
        b_amount_of_substance(
            b_temperature(
                b_current(
                    b_mass(
                        b_length(b_time(PhysicalQuantityBuilder_new, v.time),
                                 v.length),
                        v.mass),
                    v.current),
                v.temperature),
            v.amount_of_substance),
        v.luminous_intensity) : v \in UnitVectors}

\* ------------------------------------------------------------------ state

NoNumber == ConcreteNumber_new(F64(0, 1), Dimensionless)

NoResult == Err("none")

NoParse == PErr(<<>>, "none")

Blank ==
    /\ pc = "inputs"
    /\ parsed = NoParse
    /\ result = NoResult
    /\ result2 = NoResult
    /\ printed = <<>>
    /\ builder_out = PhysicalQuantityBuilder_new

\* No builder is an operand.
NoBuilders ==
    /\ builder_a = PhysicalQuantityBuilder_new
    /\ builder_b = PhysicalQuantityBuilder_new

\* ---------------------------------- the operators of ConcreteNumber (main.rs)

InitArith ==
    /\ Blank
    /\ NoBuilders
    /\ lhs \in Operands
    /\ rhs \in Operands
    /\ tree = Value(NoNumber)
    /\ input = <<>>
    /\ input2 = <<>>
    /\ pq = Dimensionless

Apply(name, r) ==
    /\ pc = "inputs"
    /\ pc' = name
    /\ result' = r
    /\ UNCHANGED <<builder_a, builder_b, builder_out>>
    /\ UNCHANGED <<lhs, rhs, tree, input, input2, pq, parsed, result2, printed>>

DoAdd == Apply("add", ConcreteNumber_add(lhs, rhs))

DoSub == Apply("sub", ConcreteNumber_sub(lhs, rhs))

DoMul == Apply("mul", Ok(ConcreteNumber_mul(lhs, rhs)))

DoDiv == Apply("div", Ok(ConcreteNumber_div(lhs, rhs)))

NextArith == DoAdd \/ DoSub \/ DoMul \/ DoDiv

SpecArith == InitArith /\ [][NextArith]_vars

\* ------------------------------------------------ Expr::evaluate (parser.rs)

InitEval ==
    /\ Blank
    /\ NoBuilders
    /\ lhs = NoNumber
    /\ rhs = NoNumber
    /\ tree \in Exprs
    /\ input = <<>>
    /\ input2 = <<>>
    /\ pq = Dimensionless

Evaluate ==
    /\ pc = "inputs"
    /\ pc' = "evaluated"
    /\ result' = evaluate(tree)
    /\ UNCHANGED <<builder_a, builder_b, builder_out>>
    /\ UNCHANGED <<lhs, rhs, tree, input, input2, pq, parsed, result2, printed>>

NextEval == Evaluate

SpecEval == InitEval /\ [][NextEval]_vars

\* -------------------------------------- unit_as_physical_quantity (parser.rs)

InitUnit ==
    /\ Blank
    /\ NoBuilders
    /\ lhs = NoNumber
    /\ rhs = NoNumber
    /\ tree = Value(NoNumber)
    /\ input \in UnitTokens
    /\ input2 = <<>>
    /\ pq = Dimensionless

ParseUnit ==
    /\ pc = "inputs"
    /\ pc' = "parsed"
    /\ parsed' = unit_as_physical_quantity(input)
    /\ UNCHANGED <<builder_a, builder_b, builder_out>>
    /\ UNCHANGED <<lhs, rhs, tree, input, input2, pq, result, result2, printed>>

NextUnit == ParseUnit

SpecUnit == InitUnit /\ [][NextUnit]_vars

\* --------------------------------------- Display for PhysicalQuantity (main.rs)

InitFormat ==
    /\ Blank
    /\ NoBuilders
    /\ lhs = NoNumber
    /\ rhs = NoNumber
    /\ tree = Value(NoNumber)
    /\ input = <<>>
    /\ input2 = <<>>
    /\ pq \in FormatVectors

Display ==
    /\ pc = "inputs"
    /\ pc' = "printed"
    /\ printed' = PhysicalQuantity_fmt(pq)
    /\ UNCHANGED <<builder_a, builder_b, builder_out>>
    /\ UNCHANGED <<lhs, rhs, tree, input, input2, pq, parsed, result, result2>>

NextFormat == Display

SpecFormat == InitFormat /\ [][NextFormat]_vars

\* ------------------------- main: evaluate_physical_equation, then println!

Init ==
    /\ Blank
    /\ NoBuilders
    /\ lhs = NoNumber
    /\ rhs = NoNumber
    /\ tree = Value(NoNumber)
    /\ input \in TextInputs
    /\ input2 = <<>>
    /\ pq = Dimensionless

EvaluateInput ==
    /\ pc = "inputs"
    /\ pc' = "evaluated"
    /\ result' = evaluate_physical_equation(input)
    /\ UNCHANGED <<builder_a, builder_b, builder_out>>
    /\ UNCHANGED <<lhs, rhs, tree, input, input2, pq, parsed, result2, printed>>

PrintResult ==
    /\ pc = "evaluated"
    /\ pc' = "printed"
    /\ printed' = main_print(result)
    /\ UNCHANGED <<builder_a, builder_b, builder_out>>
    /\ UNCHANGED <<lhs, rhs, tree, input, input2, pq, parsed, result, result2>>

Next == EvaluateInput \/ PrintResult

Spec == Init /\ [][Next]_vars

\* ---------- tests::explicit_and_implicit_unit_multiplication_should_match

InitImplicit ==
    /\ Blank
    /\ NoBuilders
    /\ lhs = NoNumber
    /\ rhs = NoNumber
    /\ tree = Value(NoNumber)
    /\ \E x \in NumTexts, ts \in TokenSeqs :
        /\ input = ImplicitText(x, ts)
        /\ input2 = ExplicitText(x, ts)
    /\ pq = Dimensionless

EvaluateImplicit ==
    /\ pc \in {"inputs", "explicit"}
    /\ pc' = IF pc = "inputs" THEN "implicit" ELSE "both"
    /\ result' = evaluate_physical_equation(input)
    /\ UNCHANGED <<builder_a, builder_b, builder_out>>
    /\ UNCHANGED <<lhs, rhs, tree, input, input2, pq, parsed, result2, printed>>

EvaluateExplicit ==
    /\ pc \in {"inputs", "implicit"}
    /\ pc' = IF pc = "inputs" THEN "explicit" ELSE "both"
    /\ result2' = evaluate_physical_equation(input2)
    /\ UNCHANGED <<builder_a, builder_b, builder_out>>
    /\ UNCHANGED <<lhs, rhs, tree, input, input2, pq, parsed, result, printed>>

NextImplicit == EvaluateImplicit \/ EvaluateExplicit

SpecImplicit == InitImplicit /\ [][NextImplicit]_vars

\* ------------------------------------------------------- expr (parser.rs)

InitParse ==
    /\ Blank
    /\ NoBuilders
    /\ lhs = NoNumber
    /\ rhs = NoNumber
    /\ tree = Value(NoNumber)
    /\ input \in ExprTexts
    /\ input2 = <<>>
    /\ pq = Dimensionless

ParseExpr ==
    /\ pc = "inputs"
    /\ pc' = "parsed"
    /\ parsed' = expr(input)
    /\ UNCHANGED <<builder_a, builder_b, builder_out>>
    /\ UNCHANGED <<lhs, rhs, tree, input, input2, pq, result, result2, printed>>

NextParse == ParseExpr

SpecParse == InitParse /\ [][NextParse]_vars

\* ------------- evaluate_physical_equation on a text and on the text spaced

InitSpaced ==
    /\ Blank
    /\ NoBuilders
    /\ lhs = NoNumber
    /\ rhs = NoNumber
    /\ tree = Value(NoNumber)
    /\ \E ps \in PieceSeqs, w \in Whitespaces :
        \E gaps \in GapChoices(ps) :
            /\ input = SpacedText(ps, {}, w)
            /\ input2 = SpacedText(ps, gaps, w)
    /\ pq = Dimensionless

EvaluateTight ==
    /\ pc \in {"inputs", "spaced"}
    /\ pc' = IF pc = "inputs" THEN "tight" ELSE "both"
    /\ result' = evaluate_physical_equation(input)
    /\ UNCHANGED <<builder_a, builder_b, builder_out>>
    /\ UNCHANGED <<lhs, rhs, tree, input, input2, pq, parsed, result2, printed>>

EvaluateSpaced ==
    /\ pc \in {"inputs", "tight"}
    /\ pc' = IF pc = "inputs" THEN "spaced" ELSE "both"
    /\ result2' = evaluate_physical_equation(input2)
    /\ UNCHANGED <<builder_a, builder_b, builder_out>>
    /\ UNCHANGED <<lhs, rhs, tree, input, input2, pq, parsed, result, printed>>

NextSpaced == EvaluateTight \/ EvaluateSpaced

SpecSpaced == InitSpaced /\ [][NextSpaced]_vars

\* --------------------- Mul and Div for PhysicalQuantityBuilder (main.rs)

InitBuilder ==
    /\ Blank
    /\ builder_a \in Builders
    /\ builder_b \in Builders
    /\ lhs = NoNumber
    /\ rhs = NoNumber
    /\ tree = Value(NoNumber)
    /\ input = <<>>
    /\ input2 = <<>>
    /\ pq = Dimensionless

\* a * b
BuilderMul ==
    /\ pc = "inputs"
    /\ pc' = "product"
    /\ builder_out' = PhysicalQuantityBuilder_mul(builder_a, builder_b)
    /\ UNCHANGED <<builder_a, builder_b>>
    /\ UNCHANGED <<lhs, rhs, tree, input, input2, pq, parsed, result, result2,
                   printed>>

\* (a * b) / b, and build() of it
BuilderDiv ==
    /\ pc = "product"
    /\ pc' = "quotient"
    /\ builder_out' = PhysicalQuantityBuilder_div(builder_out, builder_b)
    /\ pq' = b_build(PhysicalQuantityBuilder_div(builder_out, builder_b))
    /\ UNCHANGED <<builder_a, builder_b>>
    /\ UNCHANGED <<lhs, rhs, tree, input, input2, parsed, result, result2,
                   printed>>

NextBuilder == BuilderMul \/ BuilderDiv

SpecBuilder == InitBuilder /\ [][NextBuilder]_vars

\* ================================================================== claims

\* The unit table of the specification (section 4.2), as written there:
\* (time, length, mass, current, temperature, amount, luminous intensity).
TableVector(s) ==
    CASE s = <<"s">> -> PhysicalQuantity_new(1, 0, 0, 0, 0, 0, 0)
      [] s = <<"m">> -> PhysicalQuantity_new(0, 1, 0, 0, 0, 0, 0)
      [] s = <<"k", "g">> -> PhysicalQuantity_new(0, 0, 1, 0, 0, 0, 0)
      [] s = <<"A">> -> PhysicalQuantity_new(0, 0, 0, 1, 0, 0, 0)
      [] s = <<"K">> -> PhysicalQuantity_new(0, 0, 0, 0, 1, 0, 0)
      [] s = <<"m", "o", "l">> -> PhysicalQuantity_new(0, 0, 0, 0, 0, 1, 0)
      [] s = <<"c", "d">> -> PhysicalQuantity_new(0, 0, 0, 0, 0, 0, 1)
      [] s = <<"H", "z">> -> PhysicalQuantity_new(-1, 0, 0, 0, 0, 0, 0)
      [] s = <<"N">> -> PhysicalQuantity_new(-2, 1, 1, 0, 0, 0, 0)
      [] s = <<"P", "a">> -> PhysicalQuantity_new(-2, -1, 1, 0, 0, 0, 0)
      [] s = <<"J">> -> PhysicalQuantity_new(-2, 2, 1, 0, 0, 0, 0)
      [] s = <<"W">> -> PhysicalQuantity_new(-3, 2, 1, 0, 0, 0, 0)
      [] s = <<"C">> -> PhysicalQuantity_new(1, 0, 0, 1, 0, 0, 0)
      [] s = <<"V">> -> PhysicalQuantity_new(-3, 2, 1, -1, 0, 0, 0)
      [] s = <<"W", "b">> -> PhysicalQuantity_new(-2, 2, 1, -1, 0, 0, 0)
      [] s = <<"T">> -> PhysicalQuantity_new(-2, 0, 1, -1, 0, 0, 0)
      [] s = <<"F">> -> PhysicalQuantity_new(4, -2, -1, 2, 0, 0, 0)
      [] s = <<"o", "h", "m">> -> PhysicalQuantity_new(-3, 2, 1, -2, 0, 0, 0)
      [] s = <<"Ω">> -> PhysicalQuantity_new(-3, 2, 1, -2, 0, 0, 0)
      [] s = <<"S">> -> PhysicalQuantity_new(3, -2, -1, 2, 0, 0, 0)
      [] s = <<"H">> -> PhysicalQuantity_new(-2, 2, 1, -2, 0, 0, 0)
      [] s = <<"k", "a", "t">> -> PhysicalQuantity_new(-1, 0, 0, 0, 0, 1, 0)

SameDimension(a, b) == \A f \in Fields : a[f] = b[f]

\* C1: a + b (a - b) fails with AddingTwoDifferentUnits
\* (SubtractingTwoDifferentUnits) exactly when some dimension exponent of a
\* differs from that of b; otherwise it succeeds with the sum (difference) of
\* the magnitudes and the shared dimension.
C1_AddSubDimensionCheck ==
    LET same == SameDimension(lhs.physical_quantity, rhs.physical_quantity)
    IN  /\ pc = "add" =>
            IF same
            THEN /\ result.ok
                 /\ result.val.magnitude
                        = [n |-> lhs.magnitude.n + rhs.magnitude.n, d |-> 1]
                 /\ result.val.physical_quantity = lhs.physical_quantity
            ELSE result = Err("AddingTwoDifferentUnits")
        /\ pc = "sub" =>
            IF same
            THEN /\ result.ok
                 /\ result.val.magnitude
                        = [n |-> lhs.magnitude.n - rhs.magnitude.n, d |-> 1]
                 /\ result.val.physical_quantity = lhs.physical_quantity
            ELSE result = Err("SubtractingTwoDifferentUnits")

C1_Witness ==
    /\ pc = "add"
    /\ lhs.physical_quantity.length = 1
    /\ rhs.physical_quantity.mass = 1
    /\ result = Err("AddingTwoDifferentUnits")

\* The exponent of base dimension f that component-wise addition (Mul) and
\* subtraction (Div) give an expression tree without Add and Sub.
RECURSIVE ExpectedExponent(_, _)
ExpectedExponent(e, f) ==
    CASE e.tag = "Value" -> e.val.physical_quantity[f]
      [] e.tag = "Paren" -> ExpectedExponent(e.e, f)
      [] e.tag = "Mul" -> ExpectedExponent(e.a, f) + ExpectedExponent(e.b, f)
      [] e.tag = "Div" -> ExpectedExponent(e.a, f) - ExpectedExponent(e.b, f)

RECURSIVE OnlyMulDiv(_)
OnlyMulDiv(e) ==
    CASE e.tag = "Value" -> TRUE
      [] e.tag = "Paren" -> OnlyMulDiv(e.e)
      [] e.tag \in {"Mul", "Div"} -> OnlyMulDiv(e.a) /\ OnlyMulDiv(e.b)
      [] OTHER -> FALSE

\* C2: evaluating an expression tree built only from Value, Mul, Div and
\* Paren never returns an error, and the dimension of the result is the
\* component-wise sum (Mul) or difference (Div) of the operands' exponents.
C2_MulDivAlwaysSucceed ==
    (pc = "evaluated" /\ OnlyMulDiv(tree)) =>
        /\ result.ok
        /\ \A f \in Fields :
               result.val.physical_quantity[f] = ExpectedExponent(tree, f)

C2_Witness ==
    /\ pc = "evaluated"
    /\ tree.tag = "Div"
    /\ tree.a.tag = "Mul"
    /\ tree.b.tag = "Paren"
    /\ result.ok
    /\ result.val.physical_quantity.time = -1

\* C3: evaluating an input with a unit token whose symbol is not in the unit
\* table ("5 foo") fails with an error; it never succeeds with the unknown
\* symbol treated as dimensionless.
C3_UnknownSymbolIsError ==
    \A n \in NumTexts :
        (pc = "evaluated" /\ input = n \o <<" ">> \o Foo) => ~result.ok

\* The spellings a unit symbol may be written back in: itself; ohm and its
\* sign are one unit of the table.
Spellings(u) == IF u \in {Omega, <<"o", "h", "m">>} THEN {Omega, <<"o", "h", "m">>} ELSE {u}

\* C4: for every base or derived unit symbol u, evaluating "<float> u" and
\* formatting the resulting quantity reproduces the text: the formatted unit
\* is u again.
C4_RoundTripDisplay ==
    \A n \in NumTexts, u \in Symbols :
        (pc = "printed" /\ input = n \o <<" ">> \o u) =>
            /\ printed.line = "result"
            /\ \E w \in Spellings(u) : printed.text = n \o <<" ">> \o w

\* The exponent of base dimension f in the product of the unit tokens ts,
\* whatever their order.
RECURSIVE SumOfTokens(_, _)
SumOfTokens(ts, f) ==
    IF ts = <<>> THEN 0
    ELSE ts[Len(ts)][2] * TableVector(ts[Len(ts)][1])[f]
         + SumOfTokens(SubSeq(ts, 1, Len(ts) - 1), f)

\* C5: "x u1 ... un" and "x u1 * 1 u2 * ... * 1 un" evaluate to equal
\* quantities (same magnitude, same dimension vector), and the dimension is
\* the product of the tokens' dimensions, independent of their order.
C5_ImplicitMatchesExplicit ==
    pc = "both" =>
    \A x \in NumTexts, ts \in TokenSeqs :
        input = ImplicitText(x, ts) =>
            /\ result.ok
            /\ result = result2
            /\ result.val.magnitude = [n |-> DigitsToNat(x), d |-> 1]
            /\ \A f \in Fields :
                   result.val.physical_quantity[f] = SumOfTokens(ts, f)

C5_Witness ==
    /\ pc = "both"
    /\ input = <<"3", " ", "W", " ", "m", "^", "3">>
    /\ input2 = <<"3", " ", "W", " ", "*", " ", "1", " ", "m", "^", "3">>
    /\ result.ok
    /\ result = result2
    /\ result.val.physical_quantity.length = 5

\* C6: for every symbol of the unit table and every exponent n, the vector
\* of the token symbol^n is the table's vector with every component times n;
\* without an exponent it is the table's vector; symbol^2 is symbol times
\* symbol.
C6_ExponentScalesTable ==
    \A s \in Symbols :
        /\ (pc = "parsed" /\ input = s) =>
               /\ parsed.ok
               /\ parsed.rest = <<>>
               /\ parsed.val = TableVector(s)
        /\ \A n \in (-MaxExp)..MaxExp :
               (pc = "parsed" /\ input = s \o <<"^">> \o isize_fmt(n)) =>
                   /\ parsed.ok
                   /\ parsed.rest = <<>>
                   /\ \A f \in Fields : parsed.val[f] = n * TableVector(s)[f]
                   /\ n = 2 =>
                          parsed.val = PhysicalQuantity_mul(TableVector(s),
                                                            TableVector(s))

C6_Witness ==
    /\ pc = "parsed"
    /\ input = <<"N", "^", "-", "2">>
    /\ parsed.ok
    /\ parsed.val.time = 4
    /\ parsed.val.length = -2
    /\ parsed.val.mass = -2

IsSuffix(t, whole) ==
    Len(t) <= Len(whole) /\ t = SubSeq(whole, Len(whole) - Len(t) + 1, Len(whole))

\* The input has trailing characters that the grammar cannot consume: expr
\* reads a prefix of it and stops before its end.
HasTrailing(text) == LET g == expr(text) IN g.ok /\ g.rest # <<>>

\* The result is a ParseError whose detail cites text of the remainder the
\* grammar left: an end of the wrapped input that starts inside that
\* remainder (the closing parenthesis of the wrapper follows it).
NamesRemainder(r, text) ==
    /\ ~r.ok
    /\ r.err = "ParseError"
    /\ IsSuffix(r.cited, wrapped(text))
    /\ Len(r.cited) <= Len(expr(text).rest) + 1

\* C7: every input with trailing characters that the grammar cannot consume
\* makes evaluate_physical_equation fail with a ParseError whose detail names
\* the unconsumed remainder; such an input never evaluates to a quantity.
C7_FullConsumption ==
    (pc = "evaluated" /\ HasTrailing(input)) => NamesRemainder(result, input)

\* C8: a unit symbol directly after the float literal, with no whitespace
\* between them (the "3m" form), is rejected with a parse error.
C8_SeparatorMandatory ==
    \A n \in NumTexts, u \in Symbols :
        (pc = "evaluated" /\ input = n \o u) =>
            (~result.ok /\ result.err = "ParseError")

\* C8, amended: the whitespace between the magnitude and the unit is
\* optional; for every symbol u of the unit table "<n>u" evaluates to the
\* quantity that "<n> u" evaluates to: magnitude n with the vector of u.
C8_SeparatorOptional ==
    \A n \in NumTexts, u \in Symbols :
        (pc = "evaluated" /\ input = n \o u) =>
            /\ result.ok
            /\ result = evaluate_physical_equation(n \o <<" ">> \o u)
            /\ result.val.magnitude = [n |-> DigitsToNat(n), d |-> 1]
            /\ result.val.physical_quantity = TableVector(u)

C8_Witness ==
    /\ pc = "evaluated"
    /\ input = <<"3", "m">>
    /\ result.ok
    /\ result.val.physical_quantity.length = 1

\* C9: a binary node with a failed child evaluates to SubExpressionError; a
\* dimension mismatch is reported only by the Add (Sub) node whose two
\* children evaluated to quantities of different dimensions; Paren(e)
\* evaluates to what e evaluates to.
C9_ErrorCollapsing ==
    pc = "evaluated" =>
        /\ tree.tag \in Oper =>
               LET expr_a == evaluate(tree.a)
                   expr_b == evaluate(tree.b)
               IN  /\ (~expr_a.ok \/ ~expr_b.ok) =>
                          result = Err("SubExpressionError")
                   /\ (~result.ok /\ result.err # "SubExpressionError") =>
                          /\ expr_a.ok /\ expr_b.ok
                          /\ ~SameDimension(expr_a.val.physical_quantity,
                                            expr_b.val.physical_quantity)
                          /\ tree.tag = "Add" => result.err = "AddingTwoDifferentUnits"
                          /\ tree.tag = "Sub" => result.err = "SubtractingTwoDifferentUnits"
                          /\ tree.tag \in {"Add", "Sub"}
        /\ tree.tag = "Paren" => result = evaluate(tree.e)

C9_Witness ==
    /\ pc = "evaluated"
    /\ tree.tag = "Mul"
    /\ tree.a.tag = "Paren"
    /\ evaluate(tree.a) = Err("AddingTwoDifferentUnits")
    /\ result = Err("SubExpressionError")

\* The base symbols in the order their bytes sort, each with its component.
SortedBase ==
    << <<"A">>, <<"K">>, <<"c", "d">>, <<"k", "g">>, <<"m">>,
       <<"m", "o", "l">>, <<"s">> >>

ComponentOf(v, s) ==
    CASE s = <<"A">> -> v.current
      [] s = <<"K">> -> v.temperature
      [] s = <<"c", "d">> -> v.luminous_intensity
      [] s = <<"k", "g">> -> v.mass
      [] s = <<"m">> -> v.length
      [] s = <<"m", "o", "l">> -> v.amount_of_substance
      [] s = <<"s">> -> v.time

\* One entry per non-zero component from the k-th base symbol on.
RECURSIVE ExpectedEntries(_, _)
ExpectedEntries(v, k) ==
    IF k > Len(SortedBase) THEN <<>>
    ELSE LET s == SortedBase[k]
             x == ComponentOf(v, s)
             entry == IF x = 1 THEN s ELSE s \o <<"^">> \o isize_fmt(x)
             later == ExpectedEntries(v, k + 1)
         IN  IF x = 0 THEN later
             ELSE IF later = <<>> THEN entry
             ELSE entry \o <<" ">> \o later

\* C10: a vector equal to that of a named unit of the unit table is written
\* as that unit's symbol, the zero vector as "dimensionless"; every other
\* vector as one entry per non-zero component (the base symbol, with
\* ^exponent unless the exponent is 1), sorted by symbol, joined by spaces.
C10_FormatDimension ==
    pc = "printed" =>
        IF \E s \in Symbols : pq = TableVector(s)
        THEN \E s \in Symbols \cup {Omega} : pq = TableVector(s) /\ printed = s
        ELSE IF pq = Dimensionless THEN printed = dimensionless
        ELSE printed = ExpectedEntries(pq, 1)

\* The leaf the k-th operand stands for.
OperandValue(unit, k) ==
    Value(ConcreteNumber_new(
        [n |-> k, d |-> 1],
        IF unit THEN TableVector(BaseSymbols[((k - 1) % 7) + 1])
        ELSE PhysicalQuantity_new(0, 0, 0, 0, 0, 0, 0)))

OperOf(sym) ==
    CASE sym = "+" -> "Add" [] sym = "-" -> "Sub"
      [] sym = "*" -> "Mul" [] sym = "/" -> "Div"

\* The tree of operands from..to joined by ops (ops[k] stands between
\* operand k and operand k + 1) under standard precedence and left
\* associativity: split at the last '+' or '-', or, when there is none, at
\* the last operator.
RECURSIVE StandardTree(_, _, _, _)
StandardTree(unit, ops, from, to) ==
    IF from = to THEN OperandValue(unit, from)
    ELSE LET low == {k \in from..(to - 1) : ops[k] \in {"+", "-"}}
             at == IF low = {} THEN to - 1
                   ELSE CHOOSE k \in low : \A j \in low : j <= k
         IN  Binary(OperOf(ops[at]),
                    StandardTree(unit, ops, from, at),
                    StandardTree(unit, ops, at + 1, to))

ExpectedTree(f) ==
    CASE f.kind = "chain" -> StandardTree(f.unit, f.ops, 1, Len(f.ops) + 1)
      [] f.kind = "left" ->
            Binary(OperOf(f.ops[2]),
                   Paren(Binary(OperOf(f.ops[1]), OperandValue(f.unit, 1),
                                OperandValue(f.unit, 2))),
                   OperandValue(f.unit, 3))
      [] f.kind = "right" ->
            Binary(OperOf(f.ops[1]),
                   OperandValue(f.unit, 1),
                   Paren(Binary(OperOf(f.ops[2]), OperandValue(f.unit, 2),
                                OperandValue(f.unit, 3))))

\* C11: expr reads a chain of operands whole and builds the tree of standard
\* precedence and left associativity ('*' and '/' bind tighter than '+' and
\* '-'; operators of one level nest to the left); a parenthesised
\* sub-expression is one factor, kept as a Paren node.
C11_PrecedenceLeftAssoc ==
    pc = "parsed" =>
    \A f \in ExprForms :
        input = ExprText(f) =>
            /\ parsed.ok
            /\ parsed.rest = <<>>
            /\ parsed.val = ExpectedTree(f)

\* "1-2-3" has been parsed as Sub(Sub(1, 2), 3).
C11_Witness ==
    /\ pc = "parsed"
    /\ input = <<"1", "-", "2", "-", "3">>
    /\ parsed.ok
    /\ parsed.val = Binary("Sub",
                           Binary("Sub", OperandValue(FALSE, 1),
                                  OperandValue(FALSE, 2)),
                           OperandValue(FALSE, 3))

\* C12: "<n> Ω" evaluates to the quantity "<n> ohm" evaluates to, the
\* magnitude n with the vector of the ohm (time -3, length 2, mass 1,
\* current -2): "Ω" is read as a unit symbol.
C12_OmegaIsOhm ==
    \A n \in NumTexts :
        (pc = "evaluated" /\ input = n \o <<" ">> \o Omega) =>
            /\ result.ok
            /\ result = evaluate_physical_equation(n \o <<" ", "o", "h", "m">>)
            /\ result.val.physical_quantity = TableVector(Omega)

\* C13: a text and the same text with whitespace inserted at the start, at
\* the end, beside a binary operator, beside a parenthesis or between a
\* magnitude and its unit have the same outcome: the same quantity, or an
\* error of the same kind.
C13_WhitespaceTolerance ==
    pc = "both" =>
        \/ result.ok /\ result2.ok /\ result.val = result2.val
        \/ ~result.ok /\ ~result2.ok /\ result.err = result2.err

\* "(1m)" and " ( 1 m ) " have both been evaluated, to 1 m.
C13_Witness ==
    /\ pc = "both"
    /\ input = <<"(", "1", "m", ")">>
    /\ input2 = <<" ", "(", " ", "1", " ", "m", " ", ")", " ">>
    /\ result.ok
    /\ result2.ok
    /\ result.val.physical_quantity.length = 1

\* The text is derivable from the grammar expr: expr reads all of it.
Derivable(text) == LET g == expr(text) IN g.ok /\ g.rest = <<>>

\* C14: evaluate_physical_equation returns a quantity only for an input
\* that is itself derivable from expr; an input with unbalanced parentheses
\* fails with a ParseError.
C14_OnlyDerivableInputsSucceed ==
    pc = "evaluated" =>
        /\ result.ok => Derivable(input)
        /\ ~Derivable(input) => (~result.ok /\ result.err = "ParseError")

\* C15: builder division is the inverse of builder multiplication:
\* (a * b) / b builds the vector a builds, the vector PhysicalQuantity
\* division gives for the built product and b.
C15_BuilderDivInvertsMul ==
    pc = "quotient" =>
        /\ pq = b_build(builder_a)
        /\ pq = PhysicalQuantity_div(
                    b_build(PhysicalQuantityBuilder_mul(builder_a, builder_b)),
                    b_build(builder_b))

====
